---- MODULE Spec2Model ----
(***************************************************************************)
(* JotiCalc (src/src/App.vue): the line store, the evaluation driver and   *)
(* the startup load of the calculator notebook.                            *)
(*                                                                         *)
(* A line's input is a sequence of tokens (the pieces of the text the code *)
(* tells apart: "//", "=", " to ", a blank, a name, a numeral, a unit), so *)
(* that trim, startsWith, includes and split are computed as the code      *)
(* computes them.  Results are strings.  Numbers are kept in tenths.       *)
(* Line positions are 0-based as in the source; lines[k + 1] is line k.    *)
(***************************************************************************)
EXTENDS Integers, Sequences, FiniteSets, TLC

VARIABLES lines, variables, currencyUnits, mounted, setData, nOps, lastOp, evalLog, writer

vars == <<lines, variables, currencyUnits, mounted, setData, nOps, lastOp, evalLog, writer>>

(***************************************************************************)
(* Bounds of the model.                                                    *)
(***************************************************************************)
\* longest persisted sequence getData returns, and longest sequence addLine grows
MaxLines == 4
\* number of user events and loads in one session
MaxOps == 2

(***************************************************************************)
(* Text: token sequences and the string functions the code uses.           *)
(***************************************************************************)
SP == " "

RECURSIVE trimStart(_)
trimStart(s) == IF s # <<>> /\ Head(s) = SP THEN trimStart(Tail(s)) ELSE s

RECURSIVE trimEnd(_)
trimEnd(s) == IF s # <<>> /\ s[Len(s)] = SP THEN trimEnd(SubSeq(s, 1, Len(s) - 1)) ELSE s

\* String.prototype.trim
trim(s) == trimEnd(trimStart(s))

\* String.prototype.startsWith, for a one-token prefix
startsWith(s, tok) == s # <<>> /\ Head(s) = tok

\* String.prototype.includes, for a one-token needle
includes(s, tok) == \E k \in 1..Len(s) : s[k] = tok

\* String.prototype.split(tok): every piece, in order
RECURSIVE split(_, _)
split(s, tok) ==
  IF ~includes(s, tok) THEN <<s>>
  ELSE LET k == CHOOSE k \in 1..Len(s) : s[k] = tok /\ \A m \in 1..(k - 1) : s[m] # tok
       IN  <<SubSeq(s, 1, k - 1)>> \o split(SubSeq(s, k + 1, Len(s)), tok)

\* the text of a token sequence
RECURSIVE text(_)
text(s) == IF s = <<>> THEN "" ELSE Head(s) \o text(Tail(s))

RECURSIVE stripSpaces(_)
stripSpaces(s) ==
  IF s = <<>> THEN <<>>
  ELSE IF Head(s) = SP THEN stripSpaces(Tail(s)) ELSE <<Head(s)>> \o stripSpaces(Tail(s))

(***************************************************************************)
(* The expression engine (mathjs), as far as the inputs of the model use   *)
(* it: numerals, names looked up in the scope, a unit after a numeral, one *)
(* "+" or "*", conversion to a unit, formatting.  A value is a number in   *)
(* tenths with a unit ("" for none), or an object.  A call of the engine   *)
(* returns a value or throws an error with a message.                      *)
(***************************************************************************)
Numerals == {"1", "2", "5", "30", "72", "100", "200", "500"}

\* the value of a numeral, in tenths
NumVal(tok) ==
  CASE tok = "1" -> 10 [] tok = "2" -> 20 [] tok = "5" -> 50 [] tok = "30" -> 300
    [] tok = "72" -> 720 [] tok = "100" -> 1000 [] tok = "200" -> 2000 [] tok = "500" -> 5000

Idents == {"a", "b", "users", "dataPerUser", "totalData", "time", "distance", "temperature"}

\* an object whose format member is a function that rejects the options it is given
ObjectLiteral == "{format: sqrt}"
\* an expression on which the engine throws an error that carries no message
ThrowsBare == "raise()"

\* units mathjs ships with
BuiltinUnits == {"hr", "minutes", "km", "m", "degF", "degC"}
\* units created by defineCustomUnits, which runs before any line is evaluated
defineCustomUnits == {"KB", "USD"}
\* units created once the currency rates have been fetched
fetchCurrencyUnits == {"eur", "EUR"}

UnitDim(u) ==
  CASE u \in {"hr", "minutes"} -> "time" [] u \in {"km", "m"} -> "length"
    [] u \in {"degF", "degC"} -> "temperature" [] u = "KB" -> "data"
    [] u \in {"USD", "eur", "EUR"} -> "currency" [] OTHER -> "none"

UnitScale(u) ==
  CASE u = "hr" -> 60 [] u = "km" -> 1000 [] u \in {"eur", "EUR"} -> 2 [] OTHER -> 1

Num(n, u) == [kind |-> "num", n |-> n, u |-> u]
Obj == [kind |-> "obj", n |-> 0, u |-> ""]
Ok(v) == [ok |-> TRUE, value |-> v, message |-> ""]
Throw(msg) == [ok |-> FALSE, value |-> Obj, message |-> msg]

\* math.to(value, unit)
mathTo(v, toUnit, units) ==
  IF Len(toUnit) # 1 \/ toUnit[1] \notin units
    THEN Throw("Unit " \o text(toUnit) \o " not found")
  ELSE IF v.kind # "num" \/ v.u = "" THEN Throw("Unexpected type of argument in function to")
  ELSE IF UnitDim(v.u) # UnitDim(toUnit[1]) THEN Throw("Units do not match")
  ELSE IF v.u = "degF" /\ toUnit[1] = "degC" THEN Ok(Num(((v.n - 320) * 5) \div 9, "degC"))
  ELSE IF v.u = "degC" /\ toUnit[1] = "degF" THEN Ok(Num((v.n * 9) \div 5 + 320, "degF"))
  ELSE Ok(Num((v.n * UnitScale(v.u)) \div UnitScale(toUnit[1]), toUnit[1]))

\* one operand: a numeral, a numeral with a unit, a name, an object literal
operand(toks, scope, units) ==
  IF Len(toks) = 1 /\ toks[1] \in Numerals THEN Ok(Num(NumVal(toks[1]), ""))
  ELSE IF Len(toks) = 1 /\ toks[1] = ObjectLiteral THEN Ok(Obj)
  ELSE IF Len(toks) = 1 /\ toks[1] = ThrowsBare THEN Throw("")
  ELSE IF Len(toks) = 1 /\ toks[1] \in Idents
    THEN IF toks[1] \in DOMAIN scope THEN Ok(scope[toks[1]])
         ELSE Throw("Undefined symbol " \o toks[1])
  ELSE IF Len(toks) = 2 /\ toks[1] \in Numerals
    THEN IF toks[2] \in units THEN Ok(Num(NumVal(toks[1]), toks[2]))
         ELSE Throw("Undefined symbol " \o toks[2])
  ELSE Throw("Syntax error")

add(l, r) ==
  IF l.kind # "num" \/ r.kind # "num" THEN Throw("Unexpected type of argument in function add")
  ELSE IF l.u = r.u THEN Ok(Num(l.n + r.n, l.u))
  ELSE IF l.u = "" \/ r.u = "" \/ UnitDim(l.u) # UnitDim(r.u) \/ UnitDim(l.u) = "temperature"
    THEN Throw("Units do not match")
  ELSE Ok(Num(l.n + (r.n * UnitScale(r.u)) \div UnitScale(l.u), l.u))

multiply(l, r) ==
  IF l.kind # "num" \/ r.kind # "num"
    THEN Throw("Unexpected type of argument in function multiply")
  ELSE Ok(Num((l.n * r.n) \div 10,
              IF l.u = "" THEN r.u ELSE IF r.u = "" THEN l.u ELSE l.u \o " " \o r.u))

binary(op, parts, scope, units) ==
  IF Len(parts) # 2 THEN Throw("Syntax error")
  ELSE LET l == operand(parts[1], scope, units)
           r == operand(parts[2], scope, units)
       IN  IF ~l.ok THEN l ELSE IF ~r.ok THEN r
           ELSE IF op = "+" THEN add(l.value, r.value) ELSE multiply(l.value, r.value)

\* math.evaluate(expr, scope)
mathEvaluate(expr, scope, units) ==
  LET toks == stripSpaces(expr)
  IN  IF includes(toks, "+") THEN binary("+", split(toks, "+"), scope, units)
      ELSE IF includes(toks, "*") THEN binary("*", split(toks, "*"), scope, units)
      ELSE operand(toks, scope, units)

\* a number in tenths as text
numText(n) ==
  IF n % 10 = 0 THEN ToString(n \div 10) ELSE ToString(n \div 10) \o "." \o ToString(n % 10)

\* math.format(value, { precision: 14 })
mathFormat(v) ==
  IF v.kind = "obj" THEN Throw("Unexpected type of argument in function sqrt")
  ELSE Ok(IF v.u = "" THEN numText(v.n) ELSE numText(v.n) \o " " \o v.u)

(***************************************************************************)
(* The evaluation driver: evaluateLine and updateAllLinesAfter.            *)
(*                                                                         *)
(* st is the state one handler works on: the lines, the binding table,     *)
(* the engine's units, and the record of the handler's calls of            *)
(* evaluateLine (log), each with the position evaluated, the depth of the  *)
(* call, the top-level call it belongs to (root), the binding table before *)
(* and after, the positions of the lines that wrote the bindings it could  *)
(* see (visible), the result fields it left in the line (fields) and the   *)
(* message of the error the engine threw, if it threw one (thrown).        *)
(***************************************************************************)
NoBindings == [x \in {} |-> Obj]

\* variables[varName] = value
bind(scope, name, v) == [x \in DOMAIN scope \cup {name} |-> IF x = name THEN v ELSE scope[x]]

\* line.hasError = false; line.errorMessage = '' after line.result was set
shown(resultText) == [result |-> resultText, hasError |-> FALSE, errorMessage |-> ""]

\* the catch block without the fallback for an empty message
catchBlockRawMessage(err) ==
  [result |-> "Error", hasError |-> TRUE, errorMessage |-> err.message]

\* the catch block
catchBlock(err) ==
  [result |-> "Error", hasError |-> TRUE,
   errorMessage |-> IF err.message = "" THEN "Unknown error" ELSE err.message]

\* the branch for empty lines and comments
cleared == [result |-> "", hasError |-> FALSE, errorMessage |-> ""]

\* the test without the comment marker
isSkippedOnlyEmpty(input) == input = <<>>

\* if (!input || input.startsWith('//'))
isSkipped(input) == input = <<>> \/ startsWith(input, "//")

\* variables[varName] = value; line.result = math.format(value, ...)
assignAndFormat(varName, v, scope) ==
  LET f == mathFormat(v)
  IN  [fields |-> IF f.ok THEN shown(f.value) ELSE catchBlock(f),
       variables |-> bind(scope, varName, v), wrote |-> {varName},
       thrown |-> IF f.ok THEN <<>> ELSE <<f.message>>]

\* an engine call threw before any binding was written
failed(err, scope) ==
  [fields |-> catchBlock(err), variables |-> scope, wrote |-> {}, thrown |-> <<err.message>>]

\* const [varName, expression] = input.split('=').map(s => s.trim())
destructured(input) ==
  LET parts == split(input, "=")
  IN  [varName |-> text(trim(parts[1])), expression |-> trim(parts[2])]

\* the try/catch of evaluateLine on a trimmed input that is not skipped
tryBlock(input, scope, units) ==
  IF includes(input, "=")
    THEN LET varName == destructured(input).varName
             expression == destructured(input).expression
         IN  IF includes(expression, " to ")
               THEN LET conv == split(expression, " to ")
                        fromExpr == trim(conv[1])
                        toUnit == trim(conv[2])
                        valueWithUnit == mathEvaluate(fromExpr, scope, units)
                        converted == mathTo(valueWithUnit.value, toUnit, units)
                    IN  IF ~valueWithUnit.ok THEN failed(valueWithUnit, scope)
                        ELSE IF ~converted.ok THEN failed(converted, scope)
                        ELSE assignAndFormat(varName, converted.value, scope)
               ELSE LET value == mathEvaluate(expression, scope, units)
                    IN  IF ~value.ok THEN failed(value, scope)
                        ELSE assignAndFormat(varName, value.value, scope)
    ELSE LET value == mathEvaluate(input, scope, units)
             f == mathFormat(value.value)
         IN  IF ~value.ok THEN failed(value, scope)
             ELSE IF ~f.ok THEN failed(f, scope)
             ELSE [fields |-> shown(f.value), variables |-> scope, wrote |-> {}, thrown |-> <<>>]

setFields(line, f) ==
  [line EXCEPT !.result = f.result, !.hasError = f.hasError, !.errorMessage = f.errorMessage]

logEntry(st, index, depth, after, fields, thrown) ==
  [index |-> index, depth |-> depth, root |-> st.root,
   before |-> st.variables, after |-> after,
   visible |-> {st.writer[x] : x \in DOMAIN st.writer},
   fields |-> fields, thrown |-> thrown]

RECURSIVE evaluateLine(_, _, _)

\* for (let i = startIndex + 1; i < lines.value.length; i++) evaluateLine(i)
RECURSIVE forLoop(_, _, _)
forLoop(st, i, depth) ==
  IF i < Len(st.lines) THEN forLoop(evaluateLine(st, i, depth + 1), i + 1, depth) ELSE st

\* the cascade skipped when the line just evaluated is in the error state
updateAllLinesAfterUnlessError(st, startIndex, depth) ==
  IF st.lines[startIndex + 1].hasError THEN st ELSE forLoop(st, startIndex + 1, depth)

\* the cascade that, below the last line, evaluates the last line again, until the
\* calls are nested one deeper than there are lines from the edited one on
updateAllLinesAfterLastAgain(st, startIndex, depth) ==
  IF startIndex = Len(st.lines) - 1 /\ depth <= Len(st.lines) - st.root
    THEN evaluateLine(st, startIndex, depth + 1)
    ELSE forLoop(st, startIndex + 1, depth)

updateAllLinesAfter(st, startIndex, depth) == forLoop(st, startIndex + 1, depth)

evaluateLine(st, index, depth) ==
  LET line == st.lines[index + 1]
      input == trim(line.input)
  IN  IF isSkipped(input)
        THEN [st EXCEPT !.lines[index + 1] = setFields(line, cleared),
                        !.log = Append(@, logEntry(st, index, depth, st.variables, cleared, <<>>))]
        ELSE LET out == tryBlock(input, st.variables, st.units)
                 done == [st EXCEPT
                            !.lines[index + 1] = setFields(line, out.fields),
                            !.variables = out.variables,
                            !.writer = [x \in DOMAIN @ \cup out.wrote |->
                                          IF x \in out.wrote THEN index ELSE @[x]],
                            !.log = Append(@, logEntry(st, index, depth, out.variables,
                                                       out.fields, out.thrown))]
             IN  updateAllLinesAfter(done, index, depth)

(***************************************************************************)
(* The texts a user types and the sequences the persistence bridge holds.  *)
(***************************************************************************)
EmptyText == <<>>
CommentText == <<"//", SP, "a", SP, "=", SP, "1", SP, "km", " to ", "m">>
AssignText == <<"a", SP, "=", SP, "1">>
IncrementText == <<"a", SP, "=", SP, "a", SP, "+", SP, "1">>
ReadText == <<"a", SP, "+", SP, "1">>
ChainText == <<"b", SP, "=", SP, "a", SP, "=", SP, "1">>
CurrencyText == <<"a", SP, "=", SP, "1", SP, "USD", " to ", "eur">>
ObjectText == <<"a", SP, "=", SP, ObjectLiteral>>
ThrowsText == <<ThrowsBare>>

\* what an input event can leave in a line
Inputs ==
  {EmptyText, CommentText, AssignText, IncrementText, ReadText, ChainText, CurrencyText,
   ObjectText, ThrowsText}

\* the inputs of the persisted sequences
SavedInputs == {AssignText, ReadText}

initialExpressions ==
  << <<"users", SP, "=", SP, "500">>,
     <<"dataPerUser", SP, "=", SP, "100", SP, "KB">>,
     <<"totalData", SP, "=", SP, "users", SP, "*", SP, "dataPerUser">>,
     <<"time", SP, "=", SP, "2", SP, "hr", SP, "+", SP, "30", SP, "minutes">>,
     <<"distance", SP, "=", SP, "5", SP, "km", SP, "+", SP, "200", SP, "m">>,
     <<"temperature", SP, "=", SP, "72", SP, "degF", " to ", "degC">>,
     <<"//", SP, "Try your own calculations below">>,
     <<>> >>

\* a line with blank result fields: addLine's newLine and the seeded lines
blankLine(inputText) == [input |-> inputText, result |-> "", hasError |-> FALSE, errorMessage |-> ""]

\* a persisted line: its result fields are those an earlier session left when it
\* evaluated the line against an empty binding table
savedLine(inputText) ==
  setFields(blankLine(inputText),
            IF isSkipped(trim(inputText)) THEN cleared
            ELSE tryBlock(trim(inputText), NoBindings,
                          BuiltinUnits \cup defineCustomUnits).fields)

\* the persisted sequences
SavedSequences ==
  UNION {[1..n -> {savedLine(t) : t \in SavedInputs}] : n \in 0..MaxLines}

\* what getData can return: an object without a lines member, or with a persisted sequence
NoLines == [present |-> FALSE, lines |-> <<>>]
GetData == {NoLines} \cup {[present |-> TRUE, lines |-> ls] : ls \in SavedSequences}

(***************************************************************************)
(* State.  lines, variables: the refs of the component.  currencyUnits:    *)
(* the currency units registered in the engine.  mounted: onMounted has    *)
(* run to its end.  setData: whether tacklet.setData has been called, and  *)
(* the lines of its last call.  nOps, lastOp, evalLog, writer record the   *)
(* run: the number of events handled, the last event (with the number of   *)
(* lines it found and, for the load, what getData returned), its calls of  *)
(* evaluateLine, and for each bound name the position of the line that     *)
(* wrote it.                                                               *)
(***************************************************************************)
units == BuiltinUnits \cup defineCustomUnits \cup currencyUnits

Init ==
  /\ lines = <<>>
  /\ variables = NoBindings
  /\ currencyUnits = {}
  /\ mounted = FALSE
  /\ setData = [called |-> FALSE, lines |-> <<>>]
  /\ nOps = 0
  /\ lastOp = [op |-> "setup", index |-> -1, count |-> 0, data |-> NoLines]
  /\ evalLog = <<>>
  /\ writer = [x \in {} |-> 0]

\* a handler that starts from an empty binding table
handlerStateReset(ls) ==
  [lines |-> ls, variables |-> NoBindings, writer |-> [x \in {} |-> 0], units |-> units,
   log |-> <<>>, root |-> -1]

\* the state a handler starts from
handlerState(ls) ==
  [lines |-> ls, variables |-> variables, writer |-> writer, units |-> units,
   log |-> <<>>, root |-> -1]

\* JSON.parse(JSON.stringify(lines.value)): an array of new objects, each with the
\* string and boolean members of a line
JSONcopy(ls) ==
  [k \in 1..Len(ls) |->
     [input |-> ls[k].input, result |-> ls[k].result, hasError |-> ls[k].hasError,
      errorMessage |-> ls[k].errorMessage]]

\* the watcher without deep: true: its callback runs only when lines.value is assigned
watchShallow(old, new, assigned, last) ==
  IF assigned THEN [called |-> TRUE, lines |-> JSONcopy(new)] ELSE last

\* watch(lines, () => tacklet.setData({lines: ...}), {deep: true}): when a handler
\* has assigned lines.value or changed the array or a member of a line, the callback
\* runs once, after the handler and before the next event, with the lines as they
\* are then; last is the call before
watch(old, new, assigned, last) ==
  IF assigned \/ new # old THEN [called |-> TRUE, lines |-> JSONcopy(new)] ELSE last

\* @input="evaluateLine(index)", after v-model has stored the new text
InputEvent(index, newText) ==
  /\ nOps < MaxOps
  /\ index \in 0..(Len(lines) - 1)
  /\ newText # lines[index + 1].input
  /\ \E st \in {evaluateLine([handlerState([lines EXCEPT ![index + 1].input = newText])
                                 EXCEPT !.root = index], index, 1)} :
         /\ lines' = st.lines
         /\ variables' = st.variables
         /\ writer' = st.writer
         /\ evalLog' = st.log
         /\ setData' = watch(lines, st.lines, FALSE, setData)
  /\ lastOp' = [op |-> "input", index |-> index, count |-> Len(lines), data |-> NoLines]
  /\ nOps' = nOps + 1
  /\ UNCHANGED <<currencyUnits, mounted>>

\* lines.value.splice(index, 0, newLine)
splice(ls, index, newLine) ==
  SubSeq(ls, 1, index) \o <<newLine>> \o SubSeq(ls, index + 1, Len(ls))

\* the argument of addLine: a number, or the click event of the Add Line button
Number(k) == [typeof |-> "number", value |-> k]
ClickEvent == [typeof |-> "object", value |-> 0]

\* addLine without the test of the type of index: always push
addLineAppending(ls, index) == Append(ls, blankLine(<<>>))

\* addLine(index)
addLine(ls, index) ==
  IF index.typeof = "number" THEN splice(ls, index.value, blankLine(<<>>))
  ELSE Append(ls, blankLine(<<>>))

\* @click="addLine"
ClickAddLine ==
  /\ nOps < MaxOps
  /\ lines' = addLine(lines, ClickEvent)
  /\ setData' = watch(lines, lines', FALSE, setData)
  /\ lastOp' = [op |-> "click", index |-> Len(lines), count |-> Len(lines), data |-> NoLines]
  /\ evalLog' = <<>>
  /\ nOps' = nOps + 1
  /\ UNCHANGED <<variables, currencyUnits, mounted, writer>>

\* the Enter handler followed by an evaluation of the lines from the insertion point
KeydownEnterThenEvaluate(index) ==
  /\ nOps < MaxOps
  /\ index \in 0..(Len(lines) - 1)
  /\ \E st \in {updateAllLinesAfter([handlerState(addLine(lines, Number(index + 1)))
                                        EXCEPT !.root = index + 1], index, 0)} :
         /\ lines' = st.lines
         /\ variables' = st.variables
         /\ writer' = st.writer
         /\ evalLog' = st.log
         /\ setData' = watch(lines, st.lines, FALSE, setData)
  /\ lastOp' = [op |-> "enter", index |-> index, count |-> Len(lines), data |-> NoLines]
  /\ nOps' = nOps + 1
  /\ UNCHANGED <<currencyUnits, mounted>>

\* @keydown.enter.prevent="addLine(index+1)"
KeydownEnter(index) ==
  /\ nOps < MaxOps
  /\ index \in 0..(Len(lines) - 1)
  /\ lines' = addLine(lines, Number(index + 1))
  /\ setData' = watch(lines, lines', FALSE, setData)
  /\ lastOp' = [op |-> "enter", index |-> index, count |-> Len(lines), data |-> NoLines]
  /\ evalLog' = <<>>
  /\ nOps' = nOps + 1
  /\ UNCHANGED <<variables, currencyUnits, mounted, writer>>

\* handleBackspace without the test that the line's input is empty
handleBackspaceAnyInput(ls, index) ==
  IF Len(ls) > 1
    THEN SubSeq(ls, 1, index) \o SubSeq(ls, index + 2, Len(ls))
    ELSE ls

\* handleBackspace without the test that more than one line exists
handleBackspaceAnyLength(ls, index) ==
  IF ls[index + 1].input = <<>>
    THEN SubSeq(ls, 1, index) \o SubSeq(ls, index + 2, Len(ls))
    ELSE ls

\* handleBackspace(event, index)
handleBackspace(ls, index) ==
  IF ls[index + 1].input = <<>> /\ Len(ls) > 1
    THEN SubSeq(ls, 1, index) \o SubSeq(ls, index + 2, Len(ls))
    ELSE ls

\* @keydown.backspace="handleBackspace($event, index)"
KeydownBackspace(index) ==
  /\ nOps < MaxOps
  /\ index \in 0..(Len(lines) - 1)
  /\ lines' = handleBackspace(lines, index)
  /\ setData' = watch(lines, lines', FALSE, setData)
  /\ lastOp' = [op |-> "backspace", index |-> index, count |-> Len(lines), data |-> NoLines]
  /\ evalLog' = <<>>
  /\ nOps' = nOps + 1
  /\ UNCHANGED <<variables, currencyUnits, mounted, writer>>

\* lines.value = data.lines || initialExpressions.map(...)
loaded(data) ==
  IF data.present THEN data.lines
  ELSE [k \in 1..Len(initialExpressions) |-> blankLine(initialExpressions[k])]

\* onMounted without the evaluation of the lines
forEachLineSkipped(st, index) == st

\* lines.value.forEach((_, index) => evaluateLine(index))
RECURSIVE forEachLine(_, _)
forEachLine(st, index) ==
  IF index < Len(st.lines)
    THEN forEachLine(evaluateLine([st EXCEPT !.root = index], index, 1), index + 1)
    ELSE st

\* onMounted, from the return of getData to its end
OnMounted(data) ==
  /\ ~mounted
  /\ nOps < MaxOps
  /\ \E st \in {forEachLine(handlerState(loaded(data)), 0)} :
         /\ lines' = st.lines
         /\ variables' = st.variables
         /\ writer' = st.writer
         /\ evalLog' = st.log
         /\ setData' = watch(lines, st.lines, TRUE, setData)
  /\ mounted' = TRUE
  /\ lastOp' = [op |-> IF data.present THEN "load" ELSE "seed", index |-> -1,
              count |-> Len(lines), data |-> data]
  /\ nOps' = nOps + 1
  /\ UNCHANGED currencyUnits

\* fetchCurrency followed by an evaluation of every line
FetchCurrencyThenEvaluate ==
  /\ currencyUnits = {}
  /\ currencyUnits' = fetchCurrencyUnits
  /\ \E st \in {forEachLine([handlerState(lines) EXCEPT
                                !.units = BuiltinUnits \cup defineCustomUnits
                                            \cup fetchCurrencyUnits], 0)} :
         /\ lines' = st.lines
         /\ variables' = st.variables
         /\ writer' = st.writer
         /\ evalLog' = st.log
         /\ setData' = watch(lines, st.lines, FALSE, setData)
  /\ UNCHANGED <<mounted, nOps, lastOp>>

\* fetchCurrency has created the currency units
FetchCurrency ==
  /\ currencyUnits = {}
  /\ currencyUnits' = fetchCurrencyUnits
  /\ UNCHANGED <<lines, variables, mounted, setData, nOps, lastOp, evalLog, writer>>

Next ==
  \/ \E index \in 0..(Len(lines) - 1), newText \in Inputs : InputEvent(index, newText)
  \/ ClickAddLine
  \/ \E index \in 0..(Len(lines) - 1) : KeydownEnter(index)
  \/ \E index \in 0..(Len(lines) - 1) : KeydownBackspace(index)
  \/ \E data \in GetData : OnMounted(data)
  \/ FetchCurrency

Spec == Init /\ [][Next]_vars

(***************************************************************************)
(* Properties.                                                             *)
(***************************************************************************)
\* the result fields of a line
fieldsOf(line) ==
  [result |-> line.result, hasError |-> line.hasError, errorMessage |-> line.errorMessage]

\* the binding table one pass over the lines at positions from..(to - 1), each
\* evaluated once in increasing order, makes of the table it starts with
RECURSIVE singlePass(_, _, _, _)
singlePass(scope, ls, from, to) ==
  IF from >= to THEN scope
  ELSE LET input == trim(ls[from + 1].input)
       IN  singlePass(IF isSkipped(input) THEN scope
                      ELSE tryBlock(input, scope, units).variables,
                      ls, from + 1, to)

\* the result fields evaluating the line at position k against a table yields
fieldsAgainst(scope, ls, k) ==
  LET input == trim(ls[k + 1].input)
  IN  IF isSkipped(input) THEN cleared ELSE tryBlock(input, scope, units).fields

\* C1: between handlers, every line's result, hasError and errorMessage are what
\* evaluating its input yields against the bindings that replaying the lines above
\* it, top to bottom from an empty table, produces.
ResultConsistency ==
  \A k \in 0..(Len(lines) - 1) :
    fieldsOf(lines[k + 1]) = fieldsAgainst(singlePass(NoBindings, lines, 0, k), lines, k)

\* C2: whenever a line is evaluated, every binding in the table it reads was written
\* by a line at its own position or above it.
BindingIsolation ==
  \A k \in 1..Len(evalLog) : \A w \in evalLog[k].visible : w <= evalLog[k].index

\* the positions evaluated by the last handler, in the order of evaluation
evaluated == [k \in 1..Len(evalLog) |-> evalLog[k].index]

\* C3: when the handler of an edit of line i returns, line i and every line below it
\* have been evaluated, in increasing order of position, whatever the new text is.
CascadeCoverage ==
  lastOp.op = "input" =>
    /\ \A j \in lastOp.index..(Len(lines) - 1) : \E k \in 1..Len(evaluated) : evaluated[k] = j
    /\ \A k \in 1..(Len(evaluated) - 1) : evaluated[k] <= evaluated[k + 1]

\* C4: one edit of line i evaluates no line twice, so it causes at most
\* (number of lines - i) evaluations.
CascadeMultiplicity ==
  lastOp.op = "input" =>
    /\ \A k, m \in 1..Len(evaluated) : evaluated[k] = evaluated[m] => k = m
    /\ Len(evaluated) <= Len(lines) - lastOp.index

\* the name a trimmed assignment text binds
assignedName(input) == text(trim(split(input, "=")[1]))

\* the line text reads the name: the name occurs in what the line evaluates
reads(inputText, name) ==
  LET input == trim(inputText)
  IN  /\ ~isSkipped(input)
      /\ IF includes(input, "=") THEN includes(trim(split(input, "=")[2]), name)
         ELSE includes(input, name)

\* the last handler was an edit that made line i an assignment that succeeded
editAssigned ==
  /\ lastOp.op = "input"
  /\ ~isSkipped(trim(lines[lastOp.index + 1].input))
  /\ includes(trim(lines[lastOp.index + 1].input), "=")
  /\ ~evalLog[1].fields.hasError

\* C5: after an edit made line i assign a value to a name, every line below it that
\* reads the name shows the result one forward pass from line i computes for it.
ForwardPropagation ==
  editAssigned =>
    \A j \in (lastOp.index + 1)..(Len(lines) - 1) :
      reads(lines[j + 1].input, assignedName(trim(lines[lastOp.index + 1].input))) =>
        fieldsOf(lines[j + 1])
          = fieldsAgainst(singlePass(evalLog[1].after, lines, lastOp.index + 1, j), lines, j)

\* C6: after the evaluation of all lines at startup, evaluating all lines top to
\* bottom once more leaves every line's result and hasError as they are.
FullEvaluationIdempotent ==
  lastOp.op \in {"load", "seed"} =>
    \A again \in {forEachLine(handlerState(lines), 0).lines} :
      \A k \in 1..Len(lines) :
        again[k].result = lines[k].result /\ again[k].hasError = lines[k].hasError

\* C7, as stated: the sequence holds at least one line in every reachable state, and
\* backspace on the only line leaves it as it is.
AlwaysOneLine ==
  /\ Len(lines) >= 1
  /\ lastOp.op = "backspace" /\ lastOp.count = 1 => Len(lines) = 1

\* C7, amended: the sequence is empty from construction until the first addLine or
\* the load; a step that leaves it empty either did not change it or is the load of
\* an empty persisted sequence; seeding leaves lines; backspace on the only line
\* leaves the sequence unchanged.
LinesNeverEmptied ==
  [][/\ Len(lines') = 0 => (lines' = lines \/ (nOps' # nOps /\ lastOp'.op = "load"))
     /\ nOps' # nOps /\ lastOp'.op = "seed" => Len(lines') >= 1
     /\ nOps' # nOps /\ lastOp'.op = "backspace" /\ Len(lines) = 1 => lines' = lines]_vars

\* C7 witness: backspace was pressed on the only line, which is still there
BackspaceOnOnlyLine ==
  lastOp.op = "backspace" /\ lastOp.count = 1 /\ Len(lines) = 1 /\ lines[1].input = <<>>

\* C8: when the evaluation of a line throws, the handler still evaluates every line
\* below that line afterwards, in the same top-level call of evaluateLine.
ErrorNeverHaltsCascade ==
  \A k \in 1..Len(evalLog) :
    evalLog[k].thrown # <<>> =>
      \A j \in (evalLog[k].index + 1)..(Len(lines) - 1) :
        \E m \in (k + 1)..Len(evalLog) :
          evalLog[m].index = j /\ evalLog[m].root = evalLog[k].root

\* C8 witness: a line that is not the last one threw, and the line after it was
\* evaluated later in the same handler
ErrorAboveEvaluatedLine ==
  \E k \in 1..Len(evalLog) :
    /\ evalLog[k].thrown # <<>>
    /\ evalLog[k].index + 1 < Len(lines)
    /\ \E m \in (k + 1)..Len(evalLog) : evalLog[m].index = evalLog[k].index + 1

\* C9: an evaluation that leaves its line in the error state leaves the binding
\* table as it found it.
ErrorWritesNoBinding ==
  \A k \in 1..Len(evalLog) :
    evalLog[k].fields.hasError => evalLog[k].after = evalLog[k].before

\* C10, as stated: a failure sets hasError, the result "Error" and, as errorMessage,
\* the message the engine supplied, whatever that message is.
ErrorShowsEngineMessage ==
  \A k \in 1..Len(evalLog) :
    evalLog[k].thrown # <<>> =>
      evalLog[k].fields
        = [result |-> "Error", hasError |-> TRUE, errorMessage |-> evalLog[k].thrown[1]]

\* C10, amended: a failure sets hasError, the result "Error" and, as errorMessage,
\* the engine's message when it is not empty and "Unknown error" when it is empty.
ErrorShowsMessageOrUnknown ==
  \A k \in 1..Len(evalLog) :
    /\ evalLog[k].fields.hasError <=> evalLog[k].thrown # <<>>
    /\ evalLog[k].thrown # <<>> =>
         evalLog[k].fields
           = [result |-> "Error", hasError |-> TRUE,
              errorMessage |-> IF evalLog[k].thrown[1] = "" THEN "Unknown error"
                               ELSE evalLog[k].thrown[1]]

\* C10 witness: the engine threw an error without a message and the line shows
\* "Unknown error"
FailureWithoutMessage ==
  \E k \in 1..Len(evalLog) :
    evalLog[k].thrown = <<"">> /\ lines[evalLog[k].index + 1].errorMessage = "Unknown error"

\* C11: every evaluation of a line whose trimmed input is empty or begins with "//"
\* leaves the line with result "", hasError false and errorMessage "", and leaves the
\* binding table as it found it, whatever follows the marker.
SkippedLineCleared ==
  \A k \in 1..Len(evalLog) :
    (\A m \in 1..Len(lines[evalLog[k].index + 1].input) :
       lines[evalLog[k].index + 1].input[m] = SP
       \/ \E n \in 1..m : /\ lines[evalLog[k].index + 1].input[n] = "//"
                           /\ \A j \in 1..(n - 1) : lines[evalLog[k].index + 1].input[j] = SP) =>
      /\ evalLog[k].fields = [result |-> "", hasError |-> FALSE, errorMessage |-> ""]
      /\ evalLog[k].after = evalLog[k].before
      /\ fieldsOf(lines[evalLog[k].index + 1])
           = [result |-> "", hasError |-> FALSE, errorMessage |-> ""]

\* C11 witness: a comment with "=" and " to " after the marker was typed into a line
\* while a name was bound, and the table and the writers of its names are as before
CommentWithAssignmentEvaluated ==
  /\ lastOp.op = "input"
  /\ lines[lastOp.index + 1].input = CommentText
  /\ includes(CommentText, "=") /\ includes(CommentText, " to ")
  /\ evalLog # <<>> /\ evalLog[1].index = lastOp.index
  /\ "a" \in DOMAIN evalLog[1].before
  /\ variables = evalLog[1].before

\* the text after the first occurrence of a token
afterFirst(s, tok) ==
  LET k == CHOOSE k \in 1..Len(s) : s[k] = tok /\ \A m \in 1..(k - 1) : s[m] # tok
  IN  SubSeq(s, k + 1, Len(s))

\* the text before the first occurrence of a token
beforeFirst(s, tok) ==
  LET k == CHOOSE k \in 1..Len(s) : s[k] = tok /\ \A m \in 1..(k - 1) : s[m] # tok
  IN  SubSeq(s, 1, k - 1)

\* C12: whenever a line that is not skipped and contains "=" is evaluated, the name
\* bound is the trimmed text before the first "=" and the expression evaluated is
\* the whole trimmed text after the first "=", further "=" included.
AssignmentSplitOnce ==
  \A k \in 1..Len(evalLog) :
    LET input == trim(lines[evalLog[k].index + 1].input)
    IN  ~isSkipped(input) /\ includes(input, "=") =>
          /\ destructured(input).varName = text(trim(beforeFirst(input, "=")))
          /\ destructured(input).expression = trim(afterFirst(input, "="))

\* C13, as stated: when addLine has inserted a line, the lines from the insertion
\* point onward have been evaluated by the handler, and when backspace has removed a
\* line, the lines after the deleted position have been evaluated by the handler.
StructuralChangeReevaluates ==
  /\ lastOp.op = "click" =>
        \A j \in lastOp.index..(Len(lines) - 1) : \E k \in 1..Len(evaluated) : evaluated[k] = j
  /\ lastOp.op = "enter" =>
        \A j \in (lastOp.index + 1)..(Len(lines) - 1) :
          \E k \in 1..Len(evaluated) : evaluated[k] = j
  /\ lastOp.op = "backspace" /\ Len(lines) < lastOp.count =>
        \A j \in lastOp.index..(Len(lines) - 1) : \E k \in 1..Len(evaluated) : evaluated[k] = j

\* C13, amended: addLine and the backspace handler evaluate no line: the step calls
\* evaluateLine for no position, leaves the binding table as it is, and every line
\* of the new sequence is the blank line or a line of the old sequence with the
\* result fields it had.
StructuralChangeEvaluatesNothing ==
  [][nOps' # nOps /\ lastOp'.op \in {"click", "enter", "backspace"} =>
       /\ evalLog' = <<>>
       /\ variables' = variables
       /\ \A k \in 1..Len(lines') :
            \/ lines'[k] = [input |-> <<>>, result |-> "", hasError |-> FALSE, errorMessage |-> ""]
            \/ \E m \in 1..Len(lines) : lines'[k] = lines[m]]_vars

\* C13 witness: Enter inserted a line above lines that show results, and no line was
\* evaluated
EnterAboveResults ==
  /\ lastOp.op = "enter"
  /\ evalLog = <<>>
  /\ \E k \in (lastOp.index + 3)..Len(lines) : lines[k].result # ""

\* C14: every step that changes the line sequence (an input, a result field, an
\* inserted or removed line, the sequence installed at load) ends with a call of
\* setData, and the lines of the last call of setData equal the line sequence, field
\* for field and in order.
PersistenceFollowsChange ==
  [][/\ lines' # lines => setData'.called
     /\ setData'.called =>
          /\ Len(setData'.lines) = Len(lines')
          /\ \A k \in 1..Len(lines') :
               /\ setData'.lines[k].input = lines'[k].input
               /\ setData'.lines[k].result = lines'[k].result
               /\ setData'.lines[k].hasError = lines'[k].hasError
               /\ setData'.lines[k].errorMessage = lines'[k].errorMessage]_vars

\* C14 witness: an edit changed the result of a line below the edited one, and the
\* last call of setData carries the new result
CascadeResultPersisted ==
  /\ lastOp.op = "input"
  /\ \E k \in (lastOp.index + 2)..Len(lines) :
       /\ lines[k].result = "Error"
       /\ setData.called /\ Len(setData.lines) = Len(lines)
       /\ setData.lines[k].result = "Error"
       /\ setData.lines[lastOp.index + 1].input = lines[lastOp.index + 1].input

\* the inputs of a line sequence, in order
inputsOf(ls) == [k \in 1..Len(ls) |-> ls[k].input]

\* the last call of evaluateLine for a position in a log
lastCall(log, index) ==
  CHOOSE m \in 1..Len(log) :
    log[m].index = index /\ \A n \in (m + 1)..Len(log) : log[n].index # index

\* C15: when startup completes, the inputs of the lines are those of the sequence
\* getData returned if it returned one, and otherwise those of the 8 example lines;
\* the top-level calls of evaluateLine went through every position from the first to
\* the last; and every line shows the fields its last evaluation computed from its
\* input, not those of the snapshot or the blank ones.
StartupLoadsOrSeeds ==
  [][nOps' # nOps /\ lastOp'.op \in {"load", "seed"} =>
       /\ inputsOf(lines')
            = IF lastOp'.data.present THEN inputsOf(lastOp'.data.lines)
              ELSE initialExpressions
       /\ ~lastOp'.data.present => Len(lines') = 8
       /\ \A k \in 0..(Len(lines') - 1) :
            /\ \E m \in 1..Len(evalLog') : evalLog'[m].index = k /\ evalLog'[m].depth = 1
            /\ \E m \in {lastCall(evalLog', k)} :
                 /\ fieldsOf(lines'[k + 1]) = evalLog'[m].fields
                 /\ evalLog'[m].fields = fieldsAgainst(evalLog'[m].before, lines', k)
       /\ \A m, n \in 1..Len(evalLog') :
            m < n /\ evalLog'[m].depth = 1 /\ evalLog'[n].depth = 1 =>
              evalLog'[m].index < evalLog'[n].index]_vars

\* C15 witness: the persisted sequence held a line with the fields of a failed
\* evaluation, and after the load the line shows the result computed at startup
StaleSnapshotRecomputed ==
  /\ lastOp.op = "load"
  /\ savedLine(ReadText).result = "Error"
  /\ \E k \in 1..Len(lines) : lines[k].input = ReadText /\ lines[k].result = "2"

\* C16: until the startup load has completed, no user event has been handled, the
\* line sequence holds no line a user added, and setData has not been called.
NoOperationBeforeLoad ==
  ~mounted => nOps = 0 /\ lines = <<>> /\ ~setData.called

\* C17: the step that registers the currency units evaluates no line: it leaves every
\* line's fields, the binding table and the record of evaluations as they are,
\* whether it comes before or after the load and the edits.
CurrencyFetchEvaluatesNothing ==
  [][currencyUnits' # currencyUnits =>
       /\ lines' = lines
       /\ variables' = variables
       /\ evalLog' = evalLog
       /\ setData' = setData]_vars

\* C17 witness: the currency units are registered, and a line that converts to a
\* currency unit still shows the error of the evaluation made before they were,
\* while an evaluation made now would succeed
CurrencyErrorOutlivesFetch ==
  /\ currencyUnits = fetchCurrencyUnits
  /\ \E k \in 1..Len(lines) :
       /\ lines[k].input = CurrencyText
       /\ lines[k].hasError /\ lines[k].errorMessage = "Unit eur not found"
       /\ ~fieldsAgainst(variables, lines, k - 1).hasError

\* C18: a Backspace key event on a line removes that line, every other line keeping
\* its fields and its order, exactly when the line's input is the empty string and
\* there is more than one line; otherwise it leaves the line sequence as it is.
BackspaceDeleteEffect ==
  [][nOps' # nOps /\ lastOp'.op = "backspace" =>
       IF lines[lastOp'.index + 1].input = <<>> /\ Len(lines) > 1
         THEN /\ Len(lines') = Len(lines) - 1
              /\ \A k \in 1..lastOp'.index : lines'[k] = lines[k]
              /\ \A k \in (lastOp'.index + 1)..Len(lines') : lines'[k] = lines[k + 1]
         ELSE lines' = lines]_vars

\* C18 witness: Backspace removed an empty line from a sequence of several lines,
\* and the lines that remain show results
EmptyLineRemoved ==
  /\ lastOp.op = "backspace"
  /\ lastOp.count > 2
  /\ Len(lines) = lastOp.count - 1
  /\ \E k \in 1..Len(lines) : lines[k].result # ""

\* C19: addLine yields a sequence one longer: Enter on line i puts a blank line at
\* position i + 1, the Add Line button puts it at the end; the lines before that
\* position are unchanged and the lines from that position on follow it, shifted by
\* one, with their fields unchanged.
AddLineEffect ==
  [][nOps' # nOps /\ lastOp'.op \in {"click", "enter"} =>
       \E at \in {IF lastOp'.op = "enter" THEN lastOp'.index + 1 ELSE Len(lines)} :
         /\ Len(lines') = Len(lines) + 1
         /\ lines'[at + 1]
              = [input |-> <<>>, result |-> "", hasError |-> FALSE, errorMessage |-> ""]
         /\ \A k \in 1..at : lines'[k] = lines[k]
         /\ \A k \in (at + 1)..Len(lines) : lines'[k + 1] = lines[k]]_vars

\* C19 witness: Enter on a line that is not the last one put a blank line between it
\* and the line that followed it, which has kept its input and its result
LineInsertedInMiddle ==
  /\ lastOp.op = "enter"
  /\ lastOp.index + 2 < Len(lines)
  /\ lines[lastOp.index + 2].input = <<>>
  /\ lines[lastOp.index + 3].input # <<>>
  /\ lines[lastOp.index + 3].result # ""

\* C20: every top-level call evaluateLine(i) returns after finitely many calls: its
\* calls are nested at most (number of lines below i) + 1 deep, a nested call is for a
\* position below the one of the call it is nested in, there are at most
\* 2^(number of lines from i on) - 1 calls, and all calls recorded when an input
\* event has been handled belong to that event.
CascadeBounded ==
  /\ \A k \in 1..Len(evalLog) :
       /\ evalLog[k].root \in 0..(Len(lines) - 1)
       /\ evalLog[k].depth >= 1
       /\ evalLog[k].depth <= (Len(lines) - 1 - evalLog[k].root) + 1
       /\ evalLog[k].index >= evalLog[k].root + evalLog[k].depth - 1
       /\ evalLog[k].index <= Len(lines) - 1
       /\ Cardinality({m \in 1..Len(evalLog) : evalLog[m].root = evalLog[k].root})
            <= 2 ^ (Len(lines) - evalLog[k].root) - 1
  /\ lastOp.op = "input" => \A k \in 1..Len(evalLog) : evalLog[k].root = lastOp.index

\* C20 witness: an edit of a line with at least two lines below it, whose cascade
\* reached the greatest depth the lines below it allow
DeepestCascade ==
  /\ lastOp.op = "input"
  /\ Len(lines) - lastOp.index >= 3
  /\ \E k \in 1..Len(evalLog) : evalLog[k].depth = Len(lines) - lastOp.index

\* C21: no step removes a name from the binding table: every name bound before an
\* edit, a cascade, addLine, a removal of a line, the load or the currency fetch is
\* bound after it, and every call of evaluateLine leaves bound the names it found.
BindingsOnlyGrow ==
  [][/\ DOMAIN variables \subseteq DOMAIN variables'
     /\ \A k \in 1..Len(evalLog') :
          DOMAIN evalLog'[k].before \subseteq DOMAIN evalLog'[k].after]_vars

\* C21 witness: the name a is bound although the line that assigned it has been
\* changed to a comment, and no line of the sequence assigns anything
BindingOutlivesItsLine ==
  /\ lastOp.op = "input"
  /\ lines[lastOp.index + 1].input = CommentText
  /\ "a" \in DOMAIN variables
  /\ writer["a"] = lastOp.index
  /\ \A k \in 1..Len(lines) : lines[k].input \in {CommentText, EmptyText}

====
